---- MODULE Spec2Model ----
(***************************************************************************)
(* The AdminAnalytics view (src/unnamed/part_000): a React function        *)
(* component holding five state hooks, one mount effect that runs the      *)
(* async function fetchAnalytics, one effect on graphData that derives     *)
(* maxMessages, the handler handleChange and the pure function formatTime. *)
(*                                                                         *)
(* React semantics assumed (React 18 root, automatic batching): the state  *)
(* updates of one synchronous block of JavaScript are applied together by  *)
(* the next render; passive effects of a commit run after that commit and  *)
(* before the next render; a promise continuation is a task of its own and *)
(* may run before or after a pending render.                               *)
(***************************************************************************)
EXTENDS Integers, Sequences, FiniteSets, TLC

VARIABLES
    value,          \* useState(0), line 42
    graphData,      \* useState([]), line 43
    data,           \* useState([]), line 44
    maxMessages,    \* useState(0), line 45
    loading,        \* useState(false), line 46
    rendered,       \* the hook values the last committed render was computed from
    needsRender,    \* a state update is queued and no render has applied it yet
    pendingEffects, \* effects of the last commit that have not run yet
    graphDataFresh, \* setGraphData stored a new array since the last render
    pc,             \* position of the async function fetchAnalytics
    promise,        \* state of the promise returned by fetchAnalytics()
    requests,       \* number of fetch() calls issued
    inFlight,       \* number of fetch() calls not yet settled
    consoleErrors,  \* messages written with console.error
    outcome,        \* how the run of fetchAnalytics ended (history)
    responseBody,   \* the array response.json() resolved with (history)
    before,         \* data, graphData, maxMessages when fetchAnalytics started (history)
    fmtIn,          \* argument of formatTime, in tenths of a second
    fmtOut          \* what formatTime returned for fmtIn

vars == <<value, graphData, data, maxMessages, loading, rendered, needsRender,
          pendingEffects, graphDataFresh, pc, promise, requests, inFlight,
          consoleErrors, outcome, responseBody, before, fmtIn, fmtOut>>

\* Bounds of the model.
MaxLen == 3
MaxCount == 2
MaxSeconds == 3600

\* Program constants.
AxisPadding == 3
SecondsPerMinute == 60

TopicNames == {"General", "Billing"}
Records == [topic_name : TopicNames, user_message_count : 0..MaxCount]
Bodies == UNION {[1..n -> Records] : n \in 0..MaxLen}
SessionResults == {"tokens", "noTokens", "rejected"}
FetchResults == {"ok", "notOk", "networkError"}
TabValues == {0}

(***************************************************************************)
(* Pure functions.                                                         *)
(***************************************************************************)

\* A comparator that moves "General" to the end instead of the top.
compareGeneralLast(a, b) ==
    IF a.topic_name = "General" THEN 1
    ELSE IF b.topic_name = "General" THEN -1
    ELSE 0

\* The comparator passed to Array.prototype.sort.
compare(a, b) ==
    IF a.topic_name = "General" THEN -1
    ELSE IF b.topic_name = "General" THEN 1
    ELSE 0

\* Insertion of x behind every element that does not compare greater than it.
RECURSIVE insertSorted(_, _)
insertSorted(sorted, x) ==
    IF Len(sorted) = 0 THEN <<x>>
    ELSE LET last == sorted[Len(sorted)]
         IN  IF compare(last, x) > 0
             THEN Append(insertSorted(SubSeq(sorted, 1, Len(sorted) - 1), x), last)
             ELSE Append(sorted, x)

\* Array.prototype.sort is a stable comparison sort.
RECURSIVE stableSort(_)
stableSort(list) ==
    IF Len(list) = 0 THEN <<>>
    ELSE insertSorted(stableSort(SubSeq(list, 1, Len(list) - 1)), list[Len(list)])

occurrences(r, list) == Cardinality({i \in 1..Len(list) : list[i] = r})

sameElements(s, t) ==
    /\ Len(s) = Len(t)
    /\ \A i \in 1..Len(t) : occurrences(t[i], s) = occurrences(t[i], t)

permutations(list) ==
    {s \in [1..Len(list) -> {list[i] : i \in 1..Len(list)}] : sameElements(s, list)}

\* The comparator orders the elements of the list consistently: the two
\* orders in which a sort may compare two elements agree.
comparatorConsistent(list) ==
    \A i, j \in 1..Len(list) :
        i # j => compare(list[i], list[j]) = 0 - compare(list[j], list[i])

\* What analyticsData.sort(...) may leave in the array: the stable order when
\* the comparator is consistent, an implementation-defined order otherwise.
sortOutcomes(list) ==
    IF comparatorConsistent(list) THEN {stableSort(list)} ELSE permutations(list)

\* A projection that loses the first record.
graphDataFormattedSkipsFirst(sorted) ==
    [i \in 1..(Len(sorted) - 1) |->
        [module |-> sorted[i + 1].topic_name,
         Messages |-> sorted[i + 1].user_message_count]]

\* sortedAnalyticsData.map(topic => ({module, Messages})).
graphDataFormatted(sorted) ==
    [i \in 1..Len(sorted) |->
        [module |-> sorted[i].topic_name,
         Messages |-> sorted[i].user_message_count]]

\* Math.max(...points.map(p => p.Messages)) of a non-empty list.
mathMax(points) ==
    CHOOSE m \in {points[i].Messages : i \in 1..Len(points)} :
        \A i \in 1..Len(points) : points[i].Messages <= m

\* Math.floor and Math.round of a non-negative number given in tenths.
mathFloor(tenths) == tenths \div 10
mathRound(tenths) == (tenths + 5) \div 10

\* formatTime with the minutes rounded instead of floored.
formatTimeRoundsMinutes(seconds) ==
    LET minutes == mathRound(seconds \div SecondsPerMinute)
        remainingSeconds == mathRound(seconds % (SecondsPerMinute * 10))
    IN  [minutes |-> minutes, remainingSeconds |-> remainingSeconds,
         text |-> ToString(minutes) \o "m " \o ToString(remainingSeconds) \o "s"]

\* formatTime(seconds), seconds in tenths of a second.
formatTime(seconds) ==
    LET minutes == mathFloor(seconds \div SecondsPerMinute)
        remainingSeconds == mathRound(seconds % (SecondsPerMinute * 10))
    IN  [minutes |-> minutes, remainingSeconds |-> remainingSeconds,
         text |-> ToString(minutes) \o "m " \o ToString(remainingSeconds) \o "s"]

\* A view whose chart test is graphData.length >= 0.
ViewAlwaysChart(r) ==
    IF r.loading
    THEN [indicator |-> TRUE, chart |-> "none", chartData |-> <<>>, yAxisMax |-> 0,
          insights |-> "none", accordion |-> <<>>]
    ELSE [indicator |-> FALSE, chart |-> "LineChart", chartData |-> r.graphData,
          yAxisMax |-> r.maxMessages + AxisPadding,
          insights |-> IF r.value = 0
                       THEN IF Len(r.data) > 0 THEN "Accordion" ELSE "No insights available"
                       ELSE "none",
          accordion |-> IF r.value = 0 THEN r.data ELSE <<>>]

\* The element tree the component returns for the hook values r.
View(r) ==
    IF r.loading
    THEN [indicator |-> TRUE, chart |-> "none", chartData |-> <<>>, yAxisMax |-> 0,
          insights |-> "none", accordion |-> <<>>]
    ELSE [indicator |-> FALSE,
          chart |-> IF Len(r.graphData) > 0 THEN "LineChart" ELSE "No data found",
          chartData |-> IF Len(r.graphData) > 0 THEN r.graphData ELSE <<>>,
          yAxisMax |-> IF Len(r.graphData) > 0 THEN r.maxMessages + AxisPadding ELSE 0,
          insights |-> IF r.value = 0
                       THEN IF Len(r.data) > 0 THEN "Accordion" ELSE "No insights available"
                       ELSE "none",
          accordion |-> IF r.value = 0 THEN r.data ELSE <<>>]

(***************************************************************************)
(* State after construction: the hooks hold their initial values and the   *)
(* first render is pending.                                                *)
(***************************************************************************)
Init ==
    /\ value = 0
    /\ graphData = <<>>
    /\ data = <<>>
    /\ maxMessages = 0
    /\ loading = FALSE
    /\ rendered = [mounted |-> FALSE, value |-> 0, graphData |-> <<>>, data |-> <<>>,
                   maxMessages |-> 0, loading |-> FALSE]
    /\ needsRender = TRUE
    /\ pendingEffects = {}
    /\ graphDataFresh = FALSE
    /\ pc = "idle"
    /\ promise = "none"
    /\ requests = 0
    /\ inFlight = 0
    /\ consoleErrors = <<>>
    /\ outcome = "pending"
    /\ responseBody = <<>>
    /\ before = [data |-> <<>>, graphData |-> <<>>, maxMessages |-> 0]
    /\ fmtIn = 0
    /\ fmtOut = [minutes |-> 0, remainingSeconds |-> 0, text |-> ""]

(***************************************************************************)
(* Blocks of fetchAnalytics.  Each block states every variable that the    *)
(* async function can change.                                              *)
(***************************************************************************)

\* Lines 50-52: setLoading(true), then the call of fetchAuthSession().
fetchAnalyticsStart ==
    /\ loading' = TRUE
    /\ pc' = "awaitSession"
    /\ promise' = "pending"
    /\ before' = [data |-> data, graphData |-> graphData, maxMessages |-> maxMessages]

\* Line 86 and the return: setLoading(false); the async function completes.
finish(kind) ==
    /\ loading' = FALSE
    /\ needsRender' = (needsRender \/ loading # FALSE)
    /\ pc' = "done"
    /\ promise' = "fulfilled"
    /\ outcome' = kind

\* A catch block that leaves the loading flag alone.
catchBlockKeepsLoading(kind) ==
    /\ consoleErrors' = Append(consoleErrors, "Error fetching analytics:")
    /\ pc' = "done"
    /\ promise' = "fulfilled"
    /\ outcome' = kind
    /\ UNCHANGED <<loading, needsRender>>
    /\ UNCHANGED <<data, graphData, graphDataFresh, responseBody, requests>>

\* Lines 83-86: catch (error) { console.error(...) } setLoading(false).
catchBlock(kind) ==
    /\ consoleErrors' = Append(consoleErrors, "Error fetching analytics:")
    /\ finish(kind)
    /\ UNCHANGED <<data, graphData, graphDataFresh, responseBody, requests>>

\* The session failure escaping fetchAnalytics: the await outside the try.
sessionFailureUncaught ==
    /\ pc' = "done"
    /\ promise' = "rejected"
    /\ outcome' = "authError"
    /\ UNCHANGED <<loading, needsRender, consoleErrors, inFlight>>
    /\ UNCHANGED <<data, graphData, graphDataFresh, responseBody, requests>>

\* Lines 52-53 inside the try: fetchAuthSession() rejects, or session.tokens is
\* undefined and reading idToken throws; either lands in the catch block.
sessionFailure ==
    /\ catchBlock("authError")
    /\ UNCHANGED inFlight

\* The request issued and the loading flag cleared right away.
issueFetchClearsLoading ==
    /\ requests' = requests + 1
    /\ inFlight' = inFlight + 1
    /\ pc' = "awaitFetch"
    /\ loading' = FALSE
    /\ needsRender' = TRUE
    /\ UNCHANGED <<promise, outcome, consoleErrors>>
    /\ UNCHANGED <<data, graphData, graphDataFresh, responseBody>>

\* Lines 53-65: the token is read and fetch(...) is called.
issueFetch ==
    /\ requests' = requests + 1
    /\ inFlight' = inFlight + 1
    /\ pc' = "awaitFetch"
    /\ UNCHANGED <<loading, needsRender, promise, outcome, consoleErrors>>
    /\ UNCHANGED <<data, graphData, graphDataFresh, responseBody>>

\* A non-2xx branch that issues the request once more.
elseBranchRetries ==
    IF requests < 2
    THEN /\ requests' = requests + 1
         /\ pc' = "awaitFetch"
         /\ consoleErrors' = Append(consoleErrors, "Failed to fetch analytics:")
         /\ UNCHANGED <<inFlight, loading, needsRender, promise, outcome>>
         /\ UNCHANGED <<data, graphData, graphDataFresh, responseBody>>
    ELSE /\ consoleErrors' = Append(consoleErrors, "Failed to fetch analytics:")
         /\ finish("httpError")
         /\ inFlight' = inFlight - 1
         /\ UNCHANGED <<data, graphData, graphDataFresh, responseBody, requests>>

\* Lines 80-82 and 86: response.ok is false.
elseBranch ==
    /\ consoleErrors' = Append(consoleErrors, "Failed to fetch analytics:")
    /\ finish("httpError")
    /\ inFlight' = inFlight - 1
    /\ UNCHANGED <<data, graphData, graphDataFresh, responseBody, requests>>

\* Lines 66-67: response.ok is true and response.json() is called.
readBody ==
    /\ pc' = "awaitJson"
    /\ inFlight' = inFlight - 1
    /\ UNCHANGED <<loading, needsRender, promise, outcome, consoleErrors>>
    /\ UNCHANGED <<data, graphData, graphDataFresh, responseBody, requests>>

\* Lines 67-79 and 86: analyticsData = await response.json() (kept as
\* responseBody), sort, setData, map, setGraphData, setLoading(false).
successBranch ==
    /\ responseBody' \in Bodies
    /\ data' \in sortOutcomes(responseBody')
    /\ graphData' = graphDataFormatted(data')
    /\ graphDataFresh' = TRUE
    /\ loading' = FALSE
    /\ needsRender' = TRUE
    /\ pc' = "done"
    /\ promise' = "fulfilled"
    /\ outcome' = "success"
    /\ UNCHANGED <<consoleErrors, requests, inFlight>>

\* An effect list as if the mount effect had no dependency array.
effectsToRunNoDeps(mounted, fresh) ==
    IF ~mounted \/ fresh THEN {"fetchAnalytics", "maxMessages"} ELSE {"fetchAnalytics"}

\* The effects a commit schedules: both on mount, afterwards the one whose
\* dependency graphData changed (lines 90 and 97).
effectsToRun(mounted, fresh) ==
    IF ~mounted THEN {"fetchAnalytics", "maxMessages"}
    ELSE IF fresh THEN {"maxMessages"}
    ELSE {}

\* Lines 92-97, with the graphData of the render the effect belongs to.
graphDataEffect ==
    maxMessages' = IF Len(rendered.graphData) > 0
                   THEN mathMax(rendered.graphData)
                   ELSE maxMessages

(***************************************************************************)
(* Actions.                                                                *)
(***************************************************************************)

\* React renders the component with the current hook values and commits.
Render ==
    /\ needsRender
    /\ pendingEffects = {}
    /\ rendered' = [mounted |-> TRUE, value |-> value, graphData |-> graphData,
                    data |-> data, maxMessages |-> maxMessages, loading |-> loading]
    /\ needsRender' = FALSE
    /\ pendingEffects' = effectsToRun(rendered.mounted, graphDataFresh)
    /\ graphDataFresh' = FALSE
    /\ UNCHANGED <<value, graphData, data, maxMessages, loading, pc, promise, requests,
                   inFlight, consoleErrors, outcome, responseBody, before, fmtIn, fmtOut>>

\* React runs the effects of the last commit, in the order of their hooks.
FlushPassiveEffects ==
    /\ pendingEffects # {}
    /\ IF "fetchAnalytics" \in pendingEffects
       THEN fetchAnalyticsStart
       ELSE UNCHANGED <<loading, pc, promise, before>>
    /\ IF "maxMessages" \in pendingEffects
       THEN graphDataEffect
       ELSE UNCHANGED maxMessages
    /\ needsRender' = (needsRender \/ loading' # loading \/ maxMessages' # maxMessages)
    /\ pendingEffects' = {}
    /\ UNCHANGED <<value, graphData, data, rendered, graphDataFresh, requests, inFlight,
                   consoleErrors, outcome, responseBody, fmtIn, fmtOut>>

\* await fetchAuthSession() settles and fetchAnalytics runs on to the next await.
SessionSettles ==
    /\ pc = "awaitSession"
    /\ \E session \in SessionResults :
          IF session = "tokens" THEN issueFetch ELSE sessionFailure
    /\ UNCHANGED <<value, maxMessages, rendered, pendingEffects, before, fmtIn, fmtOut>>

\* await fetch(...) settles.
FetchSettles ==
    /\ pc = "awaitFetch"
    /\ \E response \in FetchResults :
          CASE response = "ok" -> readBody
            [] response = "notOk" -> elseBranch
            [] response = "networkError" -> catchBlock("networkError") /\ inFlight' = inFlight - 1
    /\ UNCHANGED <<value, maxMessages, rendered, pendingEffects, before, fmtIn, fmtOut>>

\* await response.json() settles.
JsonSettles ==
    /\ pc = "awaitJson"
    /\ \/ catchBlock("parseError") /\ UNCHANGED inFlight
       \/ successBranch
    /\ UNCHANGED <<value, maxMessages, rendered, pendingEffects, before, fmtIn, fmtOut>>

\* Lines 99-101: the Tabs element, rendered only when not loading, reports a tab.
handleChange ==
    /\ rendered.mounted
    /\ ~rendered.loading
    /\ \E newValue \in TabValues :
          /\ value' = newValue
          /\ needsRender' = (needsRender \/ newValue # value)
    /\ UNCHANGED <<graphData, data, maxMessages, loading, rendered, pendingEffects,
                   graphDataFresh, pc, promise, requests, inFlight, consoleErrors,
                   outcome, responseBody, before, fmtIn, fmtOut>>

Next ==
    \/ Render
    \/ FlushPassiveEffects
    \/ SessionSettles
    \/ FetchSettles
    \/ JsonSettles
    \/ handleChange

Spec == Init /\ [][Next]_vars

\* Every awaited call settles, and React runs the renders and effects it scheduled.
FairSpec ==
    /\ Spec
    /\ WF_vars(Render)
    /\ WF_vars(FlushPassiveEffects)
    /\ WF_vars(SessionSettles)
    /\ WF_vars(FetchSettles)
    /\ WF_vars(JsonSettles)

(***************************************************************************)
(* formatTime on its own: any duration up to MaxSeconds, in tenths.        *)
(***************************************************************************)
InitFormat ==
    /\ Init!1 /\ Init!2 /\ Init!3 /\ Init!4 /\ Init!5 /\ Init!6 /\ Init!7 /\ Init!8
    /\ Init!9 /\ Init!10 /\ Init!11 /\ Init!12 /\ Init!13 /\ Init!14 /\ Init!15
    /\ Init!16 /\ Init!17
    /\ fmtIn \in 0..(MaxSeconds * 10)
    /\ fmtOut = [minutes |-> 0, remainingSeconds |-> 0, text |-> ""]

formatTimeCall ==
    /\ fmtOut.text = ""
    /\ fmtOut' = formatTime(fmtIn)
    /\ UNCHANGED <<value, graphData, data, maxMessages, loading, rendered, needsRender,
                   pendingEffects, graphDataFresh, pc, promise, requests, inFlight,
                   consoleErrors, outcome, responseBody, before, fmtIn>>

SpecFormat == InitFormat /\ [][formatTimeCall]_vars

(***************************************************************************)
(* Properties.                                                             *)
(***************************************************************************)

Failures == {"httpError", "networkError", "parseError"}
InFlightPcs == {"awaitSession", "awaitFetch", "awaitJson"}
Settled == pc = "done" /\ ~needsRender /\ pendingEffects = {}
generalCount(list) ==
    Cardinality({i \in 1..Len(list) : list[i].topic_name = "General"})

LoadingOnlyView ==
    [indicator |-> TRUE, chart |-> "none", chartData |-> <<>>, yAxisMax |-> 0,
     insights |-> "none", accordion |-> <<>>]

NoDataView ==
    [indicator |-> FALSE, chart |-> "No data found", chartData |-> <<>>, yAxisMax |-> 0,
     insights |-> "No insights available", accordion |-> <<>>]

\* C1: after a successful fetch whose record list holds exactly one record
\* named "General", at any position, data has that record at its first index
\* and is a permutation of the response list: every record of the response
\* occurs in data as many times as in the response.
GeneralFirstAndPermutation ==
    (outcome = "success" /\ generalCount(responseBody) = 1) =>
        /\ data[1].topic_name = "General"
        /\ sameElements(data, responseBody)

GeneralLastInResponse ==
    /\ outcome = "success"
    /\ Len(responseBody) = 3
    /\ generalCount(responseBody) = 1
    /\ responseBody[3].topic_name = "General"
    /\ responseBody[1] = responseBody[2]
    /\ data[1] = responseBody[3]

\* C2: when the request ends in a non-2xx response, a network error or a
\* parse error, data, graphData and maxMessages hold the values they had when
\* fetchAnalytics started, and exactly the one request was issued: no retry.
FailureLeavesStateUnchanged ==
    (outcome \in Failures) =>
        /\ data = before.data
        /\ graphData = before.graphData
        /\ maxMessages = before.maxMessages
        /\ requests = 1
        /\ inFlight = 0
        /\ pc = "done"

HttpFailureSettled ==
    /\ outcome = "httpError"
    /\ Settled
    /\ consoleErrors = <<"Failed to fetch analytics:">>

ChartAxisBoundIsMaxPlusPadding ==
    rendered.mounted =>
        /\ (View(rendered).chart = "LineChart") =>
              View(rendered).yAxisMax = mathMax(rendered.graphData) + AxisPadding
        /\ (~rendered.loading /\ Len(rendered.graphData) = 0) =>
              View(rendered).chart = "No data found"

\* C5 as stated: a failure of the session retrieval leaves fetchAnalytics as
\* a rejection of its promise, without being logged by the catch block.
SessionFailurePropagates ==
    (outcome = "authError") => (promise = "rejected" /\ consoleErrors = <<>>)

\* C5, amended: a failure of the session retrieval is caught by the try/catch
\* of fetchAnalytics: it is logged like a network failure, no request is
\* issued, loading is set back to false and the promise fulfils.
SessionFailureCaught ==
    (outcome = "authError") =>
        /\ promise = "fulfilled"
        /\ consoleErrors = <<"Error fetching analytics:">>
        /\ requests = 0
        /\ loading = FALSE
        /\ pc = "done"

SessionFailureSettled ==
    /\ outcome = "authError"
    /\ Settled
    /\ rendered.mounted
    /\ requests = 0

\* C6: at most one request is ever issued, none before the token acquisition
\* has completed, none after any outcome, and never two in flight at once.
AtMostOneRequest ==
    /\ requests <= 1
    /\ inFlight <= 1
    /\ inFlight <= requests
    /\ (pc \in {"idle", "awaitSession"}) => requests = 0
    /\ (pc = "awaitFetch") => (requests = 1 /\ inFlight = 1)
    /\ (outcome = "authError") => requests = 0
    /\ (outcome \in Failures \cup {"success"}) => (requests = 1 /\ inFlight = 0)

OneRequestSucceeded ==
    /\ outcome = "success"
    /\ Settled
    /\ requests = 1
    /\ Len(data) > 0

\* C7: in every state graphData is the index-wise projection of data (same
\* length, module = topic_name, Messages = user_message_count), for the hook
\* values and for the values of the last render alike.
GraphDataProjectsData ==
    /\ Len(graphData) = Len(data)
    /\ \A i \in 1..Len(data) :
          /\ graphData[i].module = data[i].topic_name
          /\ graphData[i].Messages = data[i].user_message_count
    /\ Len(rendered.graphData) = Len(rendered.data)
    /\ \A i \in 1..Len(rendered.data) :
          /\ rendered.graphData[i].module = rendered.data[i].topic_name
          /\ rendered.graphData[i].Messages = rendered.data[i].user_message_count

TwoRecordsProjected ==
    /\ outcome = "success"
    /\ Len(rendered.data) >= 2
    /\ rendered.data[1] # rendered.data[2]
    /\ Len(rendered.graphData) >= 2

\* C8: a run whose fetch failed (non-2xx, network or parse failure) and a run
\* whose fetch succeeded with an empty record list end rendering one and the
\* same view: "No data found", "No insights available", no chart, no
\* accordion and nothing else.
FailureRendersLikeEmptySuccess ==
    (Settled /\ (outcome \in Failures \/ (outcome = "success" /\ Len(responseBody) = 0))) =>
        View(rendered) = NoDataView

EmptySuccessSettled ==
    /\ Settled
    /\ outcome = "success"
    /\ Len(responseBody) = 0
    /\ View(rendered) = NoDataView

\* C9: for a whole number of seconds s, formatTime returns minutes = s div 60
\* and seconds = s mod 60 as "{minutes}m {seconds}s"; the seconds are in 0..59
\* and minutes * 60 + seconds = s; 65 gives "1m 5s", 125 "2m 5s" and 3600
\* "60m 0s".
FormatTimeOfWholeSeconds ==
    (fmtOut.text # "" /\ fmtIn % 10 = 0) =>
        LET s == fmtIn \div 10
        IN  /\ fmtOut.minutes = s \div 60
            /\ fmtOut.remainingSeconds = s % 60
            /\ fmtOut.remainingSeconds \in 0..59
            /\ fmtOut.minutes * 60 + fmtOut.remainingSeconds = s
            /\ fmtOut.text = ToString(s \div 60) \o "m " \o ToString(s % 60) \o "s"
            /\ (s = 65) => fmtOut.text = "1m 5s"
            /\ (s = 125) => fmtOut.text = "2m 5s"
            /\ (s = 3600) => fmtOut.text = "60m 0s"

FormattedOneHour ==
    /\ fmtIn = 36000
    /\ fmtOut.text = "60m 0s"

\* C10: once loading is true it eventually is false again, and the view is
\* eventually rendered without the loading indicator, on every outcome of
\* the run, given that every awaited call settles.
LoadingEventuallyCleared ==
    loading ~> (~loading /\ rendered.mounted /\ ~rendered.loading /\ ~needsRender)

NetworkFailureSettled ==
    /\ outcome = "networkError"
    /\ Settled
    /\ ~loading
    /\ ~rendered.loading

====
